---- MODULE Spec2Model ----
(***************************************************************************)
(* A model of the thread safe single-producer, multi-consumer batch queue  *)
(* tsqueue (tsqueue.c / tsqueue.h).                                        *)
(*                                                                         *)
(* Every queue function runs under queue->lock, so one action is one       *)
(* critical section: from taking the lock to either pthread_cond_wait      *)
(* (which releases it) or pthread_mutex_unlock.  A thread that was         *)
(* signalled re-acquires the lock in a later "resume" action which         *)
(* re-evaluates the condition of its wait loop.                            *)
(*                                                                         *)
(* The callers are NThreads interchangeable threads.  A thread outside the *)
(* queue has no state, so the threads inside the queue are kept as a bag   *)
(* of calls: which function, which n_elems, and where the call stands.     *)
(***************************************************************************)
EXTENDS Integers, Sequences, FiniteSets, Bags, TLC

\* ---- bounds of the model ----
Capacity == 2
NThreads == 3
MaxElems == 3
MaxJobs == 6

\* requested counts range over 0 .. capacity + 1 so that TOO_MANY happens
Counts == 0..(Capacity + 1)

\* ---- return values (tsqueue.h) ----
OK == "OK"
TSQUEUE_CLOSED == "TSQUEUE_CLOSED"
TSQUEUE_TOO_MANY == "TSQUEUE_TOO_MANY"
TSQUEUE_SINGLE_PRODUCER == "TSQUEUE_SINGLE_PRODUCER"
\* not a return value: the call has entered pthread_cond_wait
BLOCKED == "BLOCKED"

VARIABLES
    used,                 \* queue->used
    data,                 \* the caller's backing array, slots 1..Capacity
    producer_n_elems,     \* queue->producer_n_elems
    n_consumers_waiting,  \* queue->n_consumers_waiting
    producers_done,       \* queue->producers_done
    die,                  \* queue->die
    calls,                \* bag of the calls that threads are inside
    nextElem,             \* identity of the next element to be inserted
    popped,               \* every element handed out by tsqueue_pop, in order
    destroyed,            \* tsqueue_destroy has released the queue
    leftover,             \* *used reported by tsqueue_destroy
    ev,                   \* the critical section that ran last
    queue,                \* the caller's handle, *queue of tsqueue_create
    heap,                 \* the struct tsqueue obtained from malloc
    prim,                 \* the mutex and the three condition variables
    fault,                \* the step of tsqueue_create that fails, if any
    task,                 \* the producer thread (task.c)
    cpus,                 \* bag of the consumer threads (cpu.c)
    stats,                \* struct cpu_shared_stats of main
    main                  \* the orchestrating thread (main.c)

vars == <<used, data, producer_n_elems, n_consumers_waiting, producers_done,
          die, calls, nextElem, popped, destroyed, leftover, ev,
          queue, heap, prim, fault, task, cpus, stats, main>>

\* what lives outside the fields of struct tsqueue
env == <<queue, heap, prim, fault>>

\* the threads of the program that uses the queue
pipeline == <<task, cpus, stats, main>>

\* everything a function of the queue leaves alone
outside == <<env, pipeline>>

capacity == Capacity

Min(a, b) == IF a < b THEN a ELSE b

Ev(op, n, ret, cnt, waited) ==
    [op |-> op, n |-> n, ret |-> ret, cnt |-> cnt, waited |-> waited]

\* elements inserted so far (preloaded ones first), in insertion order
inserted == [i \in 1..(nextElem - 1) |-> i]

\* ---- threads inside the queue ----
\* op: "put", "wfs", "pop", "close", "destroy"; n: its n_elems;
\* st: "blocked" in pthread_cond_wait, "woken" (signalled, has to re-acquire
\* the lock), "release" (tsqueue_destroy after its tsqueue_close returned),
\* "crashed" (never comes back)
Call(op, n, st) == [op |-> op, n |-> n, st |-> st]

One(c) == SetToBag({c})

\* the calls of the bag B that satisfy ops and sts
Sub(B, ops, sts) ==
    [c \in {x \in DOMAIN B : x.op \in ops /\ x.st \in sts} |-> B[c]]

\* number of threads inside one of the functions ops
Inside(ops) ==
    BagCardinality(Sub(calls, ops, {"blocked", "woken", "release"}))

\* number of threads that can make a call
Idle == NThreads - BagCardinality(calls)

\* ---- condition variables ----
ProducerCond == {"put", "wfs"}
ConsumerCond == {"pop"}
AllDeadCond == {"close", "destroy"}

BlockedOn(ops) == Sub(calls, ops, {"blocked"})

\* k calls of pthread_cond_signal: each unblocks one thread blocked on the
\* condition variable, if there is one
Signalled(ops, k) ==
    {W \in SubBag(BlockedOn(ops)) :
        BagCardinality(W) = Min(k, BagCardinality(BlockedOn(ops)))}

\* the calls of W after they were unblocked
Woken(W) ==
    [c \in {[x EXCEPT !.st = "woken"] : x \in DOMAIN W} |->
        W[[c EXCEPT !.st = "blocked"]]]

\* the bag of calls after the threads of W were unblocked
Wake(W) == (calls (-) W) (+) Woken(W)

InsideOps == {"put", "wfs", "pop", "close", "destroy"}

\* ---- conditions of the code ----
\* off by one in the space test
ProducerMustWaitOffByOne(n) == ~die /\ (capacity - used) < n - 1

\* wait loop of wait_for_space_internal
ProducerMustWait(n) == ~die /\ (capacity - used) < n

\* the wait loop does not look at die
ConsumerMustWaitNoDie(n) == ~producers_done /\ used < n

\* the wait loop does not look at producers_done
ConsumerMustWaitNoDone(n) == ~die /\ used < n

\* the loop waits only while the queue is empty
ConsumerMustWaitEmpty(n) == ~producers_done /\ ~die /\ used = 0 /\ n > 0

\* wait loop of tsqueue_pop
ConsumerMustWait(n) == ~producers_done /\ ~die /\ used < n

\* wait loop of tsqueue_close
CloseMustWait(pend, ncw) == pend # 0 /\ ncw # 0

\* signal_if_all_dead: number of signals sent to all_dead
signal_if_all_dead(pend, ncw) == IF pend = 0 /\ ncw = 0 THEN 1 ELSE 0

\* die is not looked at after the wait loop
ClosedRetvalIgnoresDie(r) == r

\* the retval after the wait loop, r being the retval before it: a closed
\* queue overrides it
ClosedRetval(r) == IF die THEN TSQUEUE_CLOSED ELSE r

\* no single-producer test
SpaceRetvalNoSingle(n) == IF n > capacity THEN TSQUEUE_TOO_MANY ELSE OK

\* no capacity test
SpaceRetvalNoTooMany(n) ==
    IF producer_n_elems # 0 THEN TSQUEUE_SINGLE_PRODUCER ELSE OK

\* the retval of wait_for_space_internal before its wait loop
SpaceRetval(n) ==
    LET r0 == IF n > capacity THEN TSQUEUE_TOO_MANY ELSE OK
    IN IF producer_n_elems # 0 THEN TSQUEUE_SINGLE_PRODUCER ELSE r0

\* no capacity test
PopRetvalNoTooMany(n) == OK

\* the retval of tsqueue_pop before its wait loop
PopRetval(n) == IF n > capacity THEN TSQUEUE_TOO_MANY ELSE OK

\* the request is not clamped to used
PopCountNoClamp(n) == n

\* number of elements tsqueue_pop hands out
PopCount(n) == IF used < n THEN used ELSE n

\* the last element of the batch is not copied
PutDataShort(n) ==
    [i \in 1..Capacity |->
        IF i > used /\ i <= used + n - 1 THEN nextElem + (i - used - 1)
        ELSE data[i]]

\* the backing array after tsqueue_put copied n new elements in
PutData(n) ==
    [i \in 1..Capacity |->
        IF i > used /\ i <= used + n THEN nextElem + (i - used - 1) ELSE data[i]]

\* the remainder is not moved
PopDataNoShift(k) == data

\* the backing array after tsqueue_pop moved the remainder to the front
PopData(k) ==
    [i \in 1..Capacity |-> IF i <= used - k THEN data[i + k] ELSE data[i]]

\* the elements tsqueue_pop copies out
PopOut(k) == [i \in 1..k |-> data[i]]

\* ---- tsqueue_create ----
\* the four initialisation steps, in the order tsqueue_create takes them
Primitives == {"lock", "producer_wakeup", "consumer_wakeup", "all_dead"}

StepOf(p) ==
    CASE p = "lock" -> 1
      [] p = "producer_wakeup" -> 2
      [] p = "consumer_wakeup" -> 3
      [] p = "all_dead" -> 4

\* POSIX error numbers of malloc, pthread_mutex_init and pthread_cond_init
Errnos == {"ENOMEM", "EAGAIN", "EPERM"}

NoFault == [at |-> "none", err |-> OK]

\* the call that fails and the error number it gives
Faults ==
    {NoFault} \cup {[at |-> "malloc", err |-> "ENOMEM"]}
              \cup {[at |-> p, err |-> e] : p \in Primitives, e \in Errnos}

\* the process was killed by a signal, the call does not return
SIGSEGV == "SIGSEGV"

Untouched == [inits |-> 0, destroys |-> 0]
Live == [inits |-> 1, destroys |-> 0]

\* no thread of the program has been started
NoPipeline ==
    /\ task = [pc |-> "none", left |-> 0, n |-> 0, retval |-> OK, dones |-> 0]
    /\ cpus = EmptyBag
    /\ stats = [num_tasks |-> 0]
    /\ main = [pc |-> "none", i |-> 0, faults |-> FALSE]

\* what a successful tsqueue_create leaves outside the struct
Created ==
    /\ queue = "ptr"
    /\ heap = "allocated"
    /\ prim = [p \in Primitives |-> Live]
    /\ fault = NoFault

Init ==
    /\ Created
    /\ NoPipeline
    /\ used \in 0..Capacity
    /\ data = [i \in 1..Capacity |-> IF i <= used THEN i ELSE 0]
    /\ nextElem = used + 1
    /\ producer_n_elems = 0
    /\ n_consumers_waiting = 0
    /\ producers_done = FALSE
    /\ die = FALSE
    /\ calls = EmptyBag
    /\ popped = <<>>
    /\ destroyed = FALSE
    /\ leftover = 0
    /\ ev = Ev("create", used, OK, 0, FALSE)

\* wait_for_space inserts as put does
InsertsAlways(op, retval) == retval = OK

\* only tsqueue_put copies elements in, and only when the wait succeeded
Inserts(op, retval) == op = "put" /\ retval = OK

\* a rejected call clears the field as a call that waited does
PendingAfterCleared(r) == 0

\* producer_n_elems when the call is past the wait loop, r being the retval
\* before the loop: written then cleared by a call that was let in, left
\* alone by a rejected one
PendingAfter(r) == IF r = OK THEN 0 ELSE producer_n_elems

\* ---- wait_for_space_internal, shared by put and wait_for_space ----
\* op is "put" or "wfs".  in is the bag of the other calls: calls at the
\* entry of a call, calls without the resuming one when a thread returns
\* from pthread_cond_wait.
space_section(op, n, resuming) ==
    LET r1 == IF resuming THEN OK ELSE SpaceRetval(n)
        waits == r1 = OK /\ ProducerMustWait(n)
        pend == PendingAfter(r1)
        retval == ClosedRetval(r1)
        dead == IF die THEN signal_if_all_dead(pend, n_consumers_waiting) ELSE 0
        inserts == Inserts(op, retval)
        wakeC == IF inserts /\ n # 0 /\ n_consumers_waiting # 0 THEN 1 ELSE 0
        me == IF resuming THEN One(Call(op, n, "woken")) ELSE EmptyBag
    IN IF waits
       THEN /\ producer_n_elems' = n
            /\ calls' = (calls (-) me) (+) One(Call(op, n, "blocked"))
            /\ ev' = Ev(op, n, BLOCKED, 0, resuming)
            /\ UNCHANGED <<used, data, n_consumers_waiting, producers_done,
                           die, nextElem, popped, destroyed, leftover>>
       ELSE /\ producer_n_elems' = pend
            /\ \E WD \in Signalled(AllDeadCond, dead) :
               \E WC \in Signalled(ConsumerCond, wakeC) :
                  calls' = Wake(WD (+) WC) (-) me
            /\ IF inserts
               THEN /\ data' = PutData(n)
                    /\ used' = used + n
                    /\ nextElem' = nextElem + n
               ELSE UNCHANGED <<data, used, nextElem>>
            /\ ev' = Ev(op, n, retval, 0, resuming)
            /\ UNCHANGED <<n_consumers_waiting, producers_done, die, popped,
                           destroyed, leftover>>

tsqueue_put(n) ==
    /\ heap = "allocated" /\ ~destroyed /\ Idle > 0
    /\ UNCHANGED outside
    /\ n <= Capacity => nextElem - 1 + n <= MaxElems
    /\ space_section("put", n, FALSE)

tsqueue_wait_for_space(n) ==
    /\ heap = "allocated" /\ ~destroyed /\ Idle > 0
    /\ UNCHANGED outside
    /\ space_section("wfs", n, FALSE)

\* a signalled producer re-acquires the lock inside pthread_cond_wait
producer_resume(op, n) ==
    /\ heap = "allocated" /\ ~destroyed /\ op \in ProducerCond
    /\ UNCHANGED outside
    /\ BagIn(Call(op, n, "woken"), calls)
    /\ space_section(op, n, TRUE)

\* ---- tsqueue_pop ----
\* a pop that made room does not signal the producer
ProducerSignalsNone(retval, k) == 0

\* signals tsqueue_pop sends to producer_wakeup after taking k elements
ProducerSignals(retval, k) ==
    IF /\ retval = OK
       /\ producer_n_elems # 0
       /\ producer_n_elems <= capacity - (used - k)
    THEN 1 ELSE 0

\* a pop that leaves elements does not pass the wakeup on
CascadeSignalsNone(retval, k, ncw) == 0

\* signals tsqueue_pop sends to consumer_wakeup after taking k elements,
\* ncw being n_consumers_waiting after its decrement
CascadeSignals(retval, k, ncw) ==
    IF retval = OK /\ used - k # 0 /\ ncw # 0 THEN 1 ELSE 0

\* the decrement after the wait loop is missing
ConsumersLeftWaitingNoDecrement(resuming) == n_consumers_waiting

\* n_consumers_waiting when a call is past the wait loop: incremented at
\* entry and decremented after the loop, so a call that did not wait leaves
\* it as it was and a call that waited takes itself out
ConsumersLeftWaiting(resuming) ==
    IF resuming THEN n_consumers_waiting - 1 ELSE n_consumers_waiting

\* resuming: a thread returns from pthread_cond_wait inside the wait loop
pop_section(n, resuming) ==
    LET r0 == IF resuming THEN OK ELSE PopRetval(n)
        waits == r0 = OK /\ ConsumerMustWait(n)
        ncw == ConsumersLeftWaiting(resuming)
        retval == ClosedRetval(r0)
        dead == IF die THEN signal_if_all_dead(producer_n_elems, ncw) ELSE 0
        k == IF retval = OK THEN PopCount(n) ELSE 0
        wakeP == ProducerSignals(retval, k)
        wakeC == CascadeSignals(retval, k, ncw)
        me == IF resuming THEN One(Call("pop", n, "woken")) ELSE EmptyBag
    IN IF waits
       THEN /\ n_consumers_waiting' =
                  IF resuming THEN n_consumers_waiting
                  ELSE n_consumers_waiting + 1
            /\ calls' = (calls (-) me) (+) One(Call("pop", n, "blocked"))
            /\ ev' = Ev("pop", n, BLOCKED, 0, resuming)
            /\ UNCHANGED <<used, data, producer_n_elems, producers_done, die,
                           nextElem, popped, destroyed, leftover>>
       ELSE /\ n_consumers_waiting' = ncw
            /\ \E WD \in Signalled(AllDeadCond, dead) :
               \E WP \in Signalled(ProducerCond, wakeP) :
               \E WC \in Signalled(ConsumerCond, wakeC) :
                  calls' = Wake(WD (+) WP (+) WC) (-) me
            /\ IF retval = OK
               THEN /\ popped' = popped \o PopOut(k)
                    /\ data' = PopData(k)
                    /\ used' = used - k
               ELSE UNCHANGED <<popped, data, used>>
            /\ ev' = Ev("pop", n, retval, k, resuming)
            /\ UNCHANGED <<producer_n_elems, producers_done, die, nextElem,
                           destroyed, leftover>>

tsqueue_pop(n) ==
    /\ heap = "allocated" /\ ~destroyed /\ Idle > 0
    /\ UNCHANGED outside
    /\ pop_section(n, FALSE)

\* a signalled consumer re-acquires the lock inside pthread_cond_wait
consumer_resume(n) ==
    /\ heap = "allocated" /\ ~destroyed
    /\ UNCHANGED outside
    /\ BagIn(Call("pop", n, "woken"), calls)
    /\ pop_section(n, TRUE)

\* ---- tsqueue_set_done ----
\* one signal instead of one per waiting consumer
SetDoneSignalsOne == IF n_consumers_waiting # 0 THEN 1 ELSE 0

\* number of pthread_cond_signal calls tsqueue_set_done makes
SetDoneSignals == n_consumers_waiting

\* the flag is only ever raised
tsqueue_set_done_sticky(done) ==
    /\ heap = "allocated" /\ ~destroyed /\ Idle > 0
    /\ UNCHANGED outside
    /\ producers_done' = (producers_done \/ done)
    /\ \E WC \in Signalled(ConsumerCond, SetDoneSignals) : calls' = Wake(WC)
    /\ ev' = Ev("set_done", IF done THEN 1 ELSE 0, OK, 0, FALSE)
    /\ UNCHANGED <<used, data, producer_n_elems, n_consumers_waiting, die,
                   nextElem, popped, destroyed, leftover>>

\* the critical section of tsqueue_set_done
set_done_section(done) ==
    /\ producers_done' = done
    /\ \E WC \in Signalled(ConsumerCond, SetDoneSignals) : calls' = Wake(WC)
    /\ ev' = Ev("set_done", IF done THEN 1 ELSE 0, OK, 0, FALSE)
    /\ UNCHANGED <<used, data, producer_n_elems, n_consumers_waiting, die,
                   nextElem, popped, destroyed, leftover>>

tsqueue_set_done(done) ==
    /\ heap = "allocated" /\ ~destroyed /\ Idle > 0
    /\ UNCHANGED outside
    /\ set_done_section(done)

\* ---- tsqueue_close, also the first half of tsqueue_destroy ----
\* one signal instead of one per waiting consumer
CloseSignalsOne == IF n_consumers_waiting # 0 THEN 1 ELSE 0

\* number of pthread_cond_signal calls tsqueue_close makes on consumer_wakeup
CloseSignals == n_consumers_waiting

\* the flag is flipped instead of set
DieAfterCloseToggle == ~die

\* the flag follows the presence of waiting threads
DieAfterCloseWhenWaiters == producer_n_elems # 0 \/ n_consumers_waiting # 0

\* queue->die after tsqueue_close took the lock
DieAfterClose == TRUE

\* op is "close" or "destroy"; when the tsqueue_close inside tsqueue_destroy
\* returns, the thread stands before the release of the queue
close_section(op, resuming) ==
    LET wakeP == IF ~resuming /\ producer_n_elems # 0 THEN 1 ELSE 0
        wakeC == IF resuming THEN 0 ELSE CloseSignals
        waits == CloseMustWait(producer_n_elems, n_consumers_waiting)
        me == IF resuming THEN One(Call(op, 0, "woken")) ELSE EmptyBag
        now == IF waits THEN One(Call(op, 0, "blocked"))
               ELSE IF op = "destroy" THEN One(Call(op, 0, "release"))
               ELSE EmptyBag
    IN /\ die' = DieAfterClose
       /\ \E WP \in Signalled(ProducerCond, wakeP) :
          \E WC \in Signalled(ConsumerCond, wakeC) :
             calls' = (Wake(WP (+) WC) (-) me) (+) now
       /\ ev' = Ev(op, 0, IF waits THEN BLOCKED ELSE OK, 0, resuming)
       /\ UNCHANGED <<used, data, producer_n_elems, n_consumers_waiting,
                      producers_done, nextElem, popped, destroyed, leftover>>

tsqueue_close ==
    /\ heap = "allocated" /\ ~destroyed /\ Idle > 0
    /\ UNCHANGED outside
    /\ close_section("close", FALSE)

\* a thread waiting on all_dead re-acquires the lock
close_resume(op) ==
    /\ heap = "allocated" /\ ~destroyed /\ op \in AllDeadCond
    /\ UNCHANGED outside
    /\ BagIn(Call(op, 0, "woken"), calls)
    /\ close_section(op, TRUE)

\* ---- tsqueue_destroy ----
\* the queue is destroyed once; tsqueue_destroy starts with tsqueue_close
tsqueue_destroy ==
    /\ heap = "allocated" /\ ~destroyed /\ Idle > 0 /\ Inside({"destroy"}) = 0
    /\ UNCHANGED outside
    /\ close_section("destroy", FALSE)

\* after its tsqueue_close returned: report used, destroy the mutex and the
\* condition variables, free the queue
\* the capacity is reported instead of used
destroy_release_capacity ==
    /\ heap = "allocated" /\ ~destroyed
    /\ BagIn(Call("destroy", 0, "release"), calls)
    /\ leftover' = capacity
    /\ destroyed' = TRUE
    /\ calls' = calls (-) One(Call("destroy", 0, "release"))
    /\ ev' = Ev("destroy", 0, OK, capacity, FALSE)
    /\ UNCHANGED <<used, data, producer_n_elems, n_consumers_waiting,
                   producers_done, die, nextElem, popped>>
    /\ prim' = [p \in Primitives |->
                   [prim[p] EXCEPT !.destroys = prim[p].destroys + 1]]
    /\ heap' = "freed"
    /\ UNCHANGED <<queue, fault, pipeline>>

destroy_release ==
    /\ heap = "allocated" /\ ~destroyed
    /\ BagIn(Call("destroy", 0, "release"), calls)
    /\ leftover' = used
    /\ destroyed' = TRUE
    /\ calls' = calls (-) One(Call("destroy", 0, "release"))
    /\ ev' = Ev("destroy", 0, OK, used, FALSE)
    /\ UNCHANGED <<used, data, producer_n_elems, n_consumers_waiting,
                   producers_done, die, nextElem, popped>>
    /\ prim' = [p \in Primitives |->
                   [prim[p] EXCEPT !.destroys = prim[p].destroys + 1]]
    /\ heap' = "freed"
    /\ UNCHANGED <<queue, fault, pipeline>>

\* ---- pthread_cond_wait ----
\* POSIX allows pthread_cond_wait to return without a signal
spurious_wakeup ==
    /\ heap = "allocated" /\ ~destroyed
    /\ UNCHANGED outside
    /\ \E c \in DOMAIN BlockedOn(ProducerCond \cup ConsumerCond \cup AllDeadCond) :
          /\ calls' = Wake(One(c))
          /\ ev' = Ev("spurious", c.n, BLOCKED, 0, TRUE)
    /\ UNCHANGED <<used, data, producer_n_elems, n_consumers_waiting,
                   producers_done, die, nextElem, popped, destroyed, leftover>>

\* A thread still inside a wait loop when the queue was destroyed uses a
\* destroyed mutex and freed memory: undefined behaviour.  It may come back
\* from the call or never come back.
use_after_destroy ==
    /\ destroyed
    /\ UNCHANGED outside
    /\ \E c \in DOMAIN Sub(calls, InsideOps, {"blocked", "woken"}) :
       \E back \in BOOLEAN :
          /\ calls' = (calls (-) One(c)) (+)
                      (IF back THEN EmptyBag
                       ELSE One([c EXCEPT !.st = "crashed"]))
          /\ ev' = Ev("ub", c.n, IF back THEN TSQUEUE_CLOSED ELSE BLOCKED,
                      0, TRUE)
    /\ UNCHANGED <<used, data, producer_n_elems, n_consumers_waiting,
                   producers_done, die, nextElem, popped, destroyed, leftover>>

\* the operations of the queue while it exists
QueueNext ==
    \/ \E n \in Counts : tsqueue_put(n)
    \/ \E n \in Counts : tsqueue_wait_for_space(n)
    \/ \E n \in Counts : tsqueue_pop(n)
    \/ \E done \in BOOLEAN : tsqueue_set_done(done)
    \/ tsqueue_close
    \/ \E op \in ProducerCond, n \in Counts : producer_resume(op, n)
    \/ \E n \in Counts : consumer_resume(n)
    \/ close_resume("close")
    \/ spurious_wakeup

Next ==
    \/ QueueNext
    \/ tsqueue_destroy
    \/ close_resume("destroy")
    \/ destroy_release
    \/ use_after_destroy

Spec == Init /\ [][Next]_vars

\* ---- the queue under fair scheduling ----
\* calls that can wait: 1 <= n_elems <= capacity
LiveCounts == 1..Capacity

\* the queue as main creates it: no preloaded element
LiveInit == Init /\ used = 0

\* the operations of the queue while it exists, with requests that can wait
LiveNext ==
    \/ \E n \in LiveCounts : tsqueue_put(n)
    \/ \E n \in LiveCounts : tsqueue_wait_for_space(n)
    \/ \E n \in LiveCounts : tsqueue_pop(n)
    \/ \E done \in BOOLEAN : tsqueue_set_done(done)
    \/ tsqueue_close
    \/ \E op \in ProducerCond, n \in LiveCounts : producer_resume(op, n)
    \/ \E n \in LiveCounts : consumer_resume(n)
    \/ close_resume("close")
    \/ spurious_wakeup

\* Scheduling: a thread that was signalled eventually re-acquires the lock,
\* whichever condition variable it waited on.  Calls are made by the callers
\* and are not forced; a wakeup without a signal is not forced either.
Fairness ==
    /\ WF_vars(\E op \in ProducerCond, n \in LiveCounts : producer_resume(op, n))
    /\ WF_vars(\E n \in LiveCounts : consumer_resume(n))
    /\ WF_vars(close_resume("close"))

LiveSpec == LiveInit /\ [][LiveNext]_vars /\ Fairness

\* ---- tsqueue_create and the teardown of main ----
\* main before it calls tsqueue_create: the handle is NULL, the caller's
\* array may already hold elements, and one of the calls tsqueue_create
\* makes may be going to fail
CreateInit ==
    /\ queue = "NULL"
    /\ heap = "none"
    /\ prim = [p \in Primitives |-> Untouched]
    /\ fault \in Faults
    /\ NoPipeline
    /\ nextElem \in 1..(Capacity + 1)
    /\ data = [i \in 1..Capacity |-> IF i < nextElem THEN i ELSE 0]
    /\ used = 0
    /\ producer_n_elems = 0
    /\ n_consumers_waiting = 0
    /\ producers_done = FALSE
    /\ die = FALSE
    /\ calls = EmptyBag
    /\ popped = <<>>
    /\ destroyed = FALSE
    /\ leftover = 0
    /\ ev = Ev("main", 0, OK, 0, FALSE)

\* what malloc returns
Malloc == IF fault.at = "malloc" THEN "NULL" ELSE "ptr"

\* the test after malloc looks at queue, the address of the caller's handle,
\* which is not null: the failure of malloc is not seen
MallocRetval == OK

\* the result of pthread_mutex_init or pthread_cond_init on p
InitRetval(p) == IF fault.at = p THEN fault.err ELSE OK

\* steps_done after the four initialisation steps
StepsDone ==
    IF fault.at \in Primitives THEN StepOf(fault.at) - 1 ELSE 4

\* the last initialised primitive is not destroyed
CleanupLeaksLast(steps_done) ==
    {p \in Primitives : StepOf(p) <= steps_done - 1}

\* the primitives the switch on steps_done destroys
Cleanup(steps_done) == {p \in Primitives : StepOf(p) <= steps_done}

tsqueue_create ==
    /\ ev.op = "main" /\ heap = "none"
    /\ LET u == nextElem - 1
           retval == IF fault.at \in Primitives
                     THEN InitRetval(fault.at) ELSE MallocRetval
       IN IF Malloc = "NULL"
          THEN \* **queue = ... writes through a null pointer
               /\ queue' = "NULL"
               /\ ev' = Ev("create", u, SIGSEGV, 0, FALSE)
               /\ UNCHANGED <<used, heap, prim>>
          ELSE /\ queue' = Malloc
               /\ used' = IF retval = OK THEN u ELSE used
               /\ prim' = [p \in Primitives |->
                     [inits |-> IF StepOf(p) <= StepsDone THEN 1 ELSE 0,
                      destroys |-> IF retval # OK /\ p \in Cleanup(StepsDone)
                                   THEN 1 ELSE 0]]
               /\ heap' = IF retval # OK THEN "freed" ELSE "allocated"
               /\ ev' = Ev("create", u, retval, 0, FALSE)
    /\ UNCHANGED <<data, producer_n_elems, n_consumers_waiting,
                   producers_done, die, calls, nextElem, popped, destroyed,
                   leftover, fault, pipeline>>

\* the teardown of main passes every handle that is not NULL to
\* tsqueue_destroy.  After a failed tsqueue_create the handle points to the
\* freed struct: locking its mutex is undefined behaviour, the call may be
\* killed, hang, or run through and destroy and free everything once more.
destroy_freed ==
    /\ ev.op = "create" /\ queue # "NULL" /\ heap = "freed"
    /\ \E out \in {SIGSEGV, BLOCKED, OK} :
          /\ ev' = Ev("destroy", 0, out, 0, FALSE)
          /\ prim' = IF out = OK
                     THEN [p \in Primitives |->
                            [prim[p] EXCEPT !.destroys = prim[p].destroys + 1]]
                     ELSE prim
    /\ UNCHANGED <<used, data, producer_n_elems, n_consumers_waiting,
                   producers_done, die, calls, nextElem, popped, destroyed,
                   leftover, queue, heap, fault, pipeline>>

\* main: create the queue, run the producer and the consumers, destroy it
CreateNext ==
    \/ tsqueue_create
    \/ destroy_freed
    \/ \E n \in LiveCounts : tsqueue_put(n)
    \/ \E n \in LiveCounts : tsqueue_pop(n)
    \/ \E op \in ProducerCond, n \in LiveCounts : producer_resume(op, n)
    \/ \E n \in LiveCounts : consumer_resume(n)
    \/ tsqueue_destroy
    \/ close_resume("destroy")
    \/ destroy_release
    \/ use_after_destroy

CreateSpec == CreateInit /\ [][CreateNext]_vars

\* ---- batches for consumers that take one element each ----
\* the producer puts batches and the consumers call tsqueue_pop for one
\* element, as cpu does; nobody calls set_done or close
CascadeNext ==
    \/ \E n \in LiveCounts : tsqueue_put(n)
    \/ tsqueue_pop(1)
    \/ \E n \in LiveCounts : producer_resume("put", n)
    \/ consumer_resume(1)
    \/ spurious_wakeup

\* a signalled thread eventually re-acquires the lock
CascadeSpec ==
    /\ LiveInit /\ [][CascadeNext]_vars
    /\ WF_vars(\E n \in LiveCounts : producer_resume("put", n))
    /\ WF_vars(consumer_resume(1))

\* ---- the queue while nobody closes it ----
SpaceNext ==
    \/ \E n \in LiveCounts : tsqueue_put(n)
    \/ \E n \in LiveCounts : tsqueue_wait_for_space(n)
    \/ \E n \in LiveCounts : tsqueue_pop(n)
    \/ \E done \in BOOLEAN : tsqueue_set_done(done)
    \/ \E op \in ProducerCond, n \in LiveCounts : producer_resume(op, n)
    \/ \E n \in LiveCounts : consumer_resume(n)
    \/ spurious_wakeup

\* a signalled thread eventually re-acquires the lock
SpaceSpec ==
    /\ LiveInit /\ [][SpaceNext]_vars
    /\ WF_vars(\E op \in ProducerCond, n \in LiveCounts :
                  producer_resume(op, n))
    /\ WF_vars(\E n \in LiveCounts : consumer_resume(n))

\* ---- the queue after a first tsqueue_set_done(true) ----
\* the state in which tsqueue_set_done(queue, true) leaves a new queue
DoneInit ==
    /\ Created
    /\ NoPipeline
    /\ used \in 0..Capacity
    /\ data = [i \in 1..Capacity |-> IF i <= used THEN i ELSE 0]
    /\ nextElem = used + 1
    /\ producer_n_elems = 0
    /\ n_consumers_waiting = 0
    /\ producers_done = TRUE
    /\ die = FALSE
    /\ calls = EmptyBag
    /\ popped = <<>>
    /\ destroyed = FALSE
    /\ leftover = 0
    /\ ev = Ev("set_done", 1, OK, 0, FALSE)

DoneSpec == DoneInit /\ [][Next]_vars

\* ---- the queue closed by its owner while the callers use it ----
\* The thread that created the queue is not one of the NThreads callers and
\* calls nothing but tsqueue_close, as main does while the threads it has
\* started are running.
owner_close ==
    /\ heap = "allocated" /\ ~destroyed
    /\ BagCardinality(calls) <= NThreads
    /\ UNCHANGED outside
    /\ close_section("close", FALSE)

CloseNext == LiveNext \/ owner_close

CloseSpec == LiveInit /\ [][CloseNext]_vars /\ Fairness

\* ---- the program: main, task and cpu ----
\* constants of the program
CPU_COUNT == 3
TASK_JOB_BUFFER_LENGTH == 2

\* error numbers of the program
AE_BAD_FILE == "AE_BAD_FILE"
EIO == "EIO"

\* main after tsqueue_create(&queue, queue_data, queue_length, ..., 0)
\* succeeded: the job file holds task.left jobs, and main.faults tells
\* whether calls of the environment (pthread_create, the reads of the job
\* file, the writes to the log) can fail in this run
PipeInit ==
    /\ Created
    /\ used = 0
    /\ data = [i \in 1..Capacity |-> 0]
    /\ nextElem = 1
    /\ producer_n_elems = 0
    /\ n_consumers_waiting = 0
    /\ producers_done = FALSE
    /\ die = FALSE
    /\ calls = EmptyBag
    /\ popped = <<>>
    /\ destroyed = FALSE
    /\ leftover = 0
    /\ ev = Ev("create", 0, OK, 0, FALSE)
    /\ \E jobs \in 1..MaxJobs :
          task = [pc |-> "none", left |-> jobs, n |-> 0, retval |-> OK,
                  dones |-> 0]
    /\ cpus = EmptyBag
    /\ stats = [num_tasks |-> 0]
    /\ \E f \in BOOLEAN : main = [pc |-> "create_task", i |-> 0, faults |-> f]

\* the results a call of the environment can have
Results(err) == IF main.faults THEN {OK, err} ELSE {OK}

\* ---- task ----
\* job_buffer_length after the comparison with tsqueue_capacity
JobBufferLength == Min(TASK_JOB_BUFFER_LENGTH, capacity)

\* the condition of the loop of task
TaskLoops(retval, left, queue_retval) ==
    retval = OK /\ left > 0 /\ queue_retval = OK

\* where task stands after a queue call gave queue_retval, next being the
\* statement after the call
TaskAfter(queue_retval, in, next) ==
    IF queue_retval = BLOCKED THEN in
    ELSE IF queue_retval = OK THEN next
    ELSE "set_done"

\* fill_job_buffer: reads up to JobBufferLength jobs, or fails
task_fill_job_buffer ==
    /\ task.pc = "fill"
    /\ \E r \in Results(AE_BAD_FILE) :
          task' = IF r = OK
                  THEN [task EXCEPT !.pc = "wfs",
                                    !.n = Min(JobBufferLength, task.left),
                                    !.left = task.left
                                             - Min(JobBufferLength, task.left)]
                  ELSE [task EXCEPT !.pc = "set_done", !.retval = r]
    /\ UNCHANGED <<used, data, producer_n_elems, n_consumers_waiting,
                   producers_done, die, calls, nextElem, popped, destroyed,
                   leftover, ev, env, cpus, stats, main>>

\* queue_retval = tsqueue_wait_for_space(queue, jobs_in_buffer)
task_wait_for_space ==
    /\ task.pc \in {"wfs", "in_wfs"}
    /\ task.pc = "in_wfs" => BagIn(Call("wfs", task.n, "woken"), calls)
    /\ space_section("wfs", task.n, task.pc = "in_wfs")
    /\ task' = [task EXCEPT !.pc = TaskAfter(ev'.ret, "in_wfs", "put")]
    /\ UNCHANGED <<env, cpus, stats, main>>

\* queue_retval = tsqueue_put(queue, jobs_in_buffer, job_buffer)
task_put ==
    /\ task.pc \in {"put", "in_put"}
    /\ task.pc = "in_put" => BagIn(Call("put", task.n, "woken"), calls)
    /\ space_section("put", task.n, task.pc = "in_put")
    /\ task' = [task EXCEPT !.pc = TaskAfter(ev'.ret, "in_put", "log")]
    /\ UNCHANGED <<env, cpus, stats, main>>

\* log_arrival for the jobs of the batch, then the test of the loop
task_log_arrival ==
    /\ task.pc = "log"
    /\ \E r \in Results(EIO) :
          task' = [task EXCEPT !.retval = r,
                               !.pc = IF TaskLoops(r, task.left, OK)
                                      THEN "fill" ELSE "set_done"]
    /\ UNCHANGED <<used, data, producer_n_elems, n_consumers_waiting,
                   producers_done, die, calls, nextElem, popped, destroyed,
                   leftover, ev, env, cpus, stats, main>>

\* set_done is only called when task did not fail
SetsDoneOnSuccess(retval) == retval = OK

\* tsqueue_set_done(queue, true) stands after the loop, outside any test
SetsDone(retval) == TRUE

\* tsqueue_set_done(queue, true), log_task_done and the return of task
task_set_done ==
    /\ task.pc = "set_done"
    /\ IF SetsDone(task.retval)
       THEN set_done_section(TRUE)
       ELSE UNCHANGED <<used, data, producer_n_elems, n_consumers_waiting,
                        producers_done, die, calls, nextElem, popped,
                        destroyed, leftover, ev>>
    /\ \E r \in (IF task.retval = OK THEN Results(EIO) ELSE {task.retval}) :
          task' = [task EXCEPT !.pc = "exit", !.retval = r,
                               !.dones = IF SetsDone(task.retval)
                                         THEN task.dones + 1 ELSE task.dones]
    /\ UNCHANGED <<env, cpus, stats, main>>

\* ---- cpu ----
\* a consumer thread: where it stands, whether it holds stats->lock, and its
\* retval
Cpu(pc, holds, retval) == [pc |-> pc, holds |-> holds, retval |-> retval]

\* the bag of consumer threads after the thread c became d
Step(c, d) == (cpus (-) One(c)) (+) One(d)

\* every result is taken for a job
GotJobAlways(queue_retval, cnt) == queue_retval = OK

\* jobs_from_queue == 1 && queue_retval == 0
GotJob(queue_retval, cnt) == cnt = 1 /\ queue_retval = OK

\* queue_retval = tsqueue_pop(queue, &jobs_from_queue, &job): the thread
\* handles the job, or leaves the loop, writes log_cpu_done and returns
cpu_pop ==
    \E c \in DOMAIN cpus :
        /\ c.pc \in {"pop", "in_pop"}
        /\ c.pc = "in_pop" => BagIn(Call("pop", 1, "woken"), calls)
        /\ pop_section(1, c.pc = "in_pop")
        /\ IF ev'.ret = BLOCKED
           THEN cpus' = Step(c, [c EXCEPT !.pc = "in_pop"])
           ELSE IF GotJob(ev'.ret, ev'.cnt)
           THEN cpus' = Step(c, [c EXCEPT !.pc = "count"])
           ELSE \E r \in (IF ev'.ret = OK THEN Results(EIO) ELSE {OK}) :
                   cpus' = Step(c, [c EXCEPT !.pc = "exit", !.retval = r])
        /\ UNCHANGED <<env, task, stats, main>>

\* stats->lock is held by some thread
StatsLocked == \E c \in DOMAIN cpus : c.holds

\* the unlock is missing
UnlockedNot(c) == c

\* pthread_mutex_unlock(&stats->lock)
Unlocked(c) == [c EXCEPT !.holds = FALSE]

\* handle_job: pthread_mutex_lock(&stats->lock), and ++stats->num_tasks in
\* the first of its two locked regions
handle_job_lock ==
    /\ ~StatsLocked
    /\ \E c \in DOMAIN cpus :
          /\ c.pc \in {"count", "turnaround"}
          /\ cpus' = Step(c, [c EXCEPT !.holds = TRUE,
                                       !.pc = IF c.pc = "count"
                                              THEN "counted" ELSE "timed"])
          /\ stats' = IF c.pc = "count"
                      THEN [stats EXCEPT !.num_tasks = stats.num_tasks + 1]
                      ELSE stats
    /\ UNCHANGED <<used, data, producer_n_elems, n_consumers_waiting,
                   producers_done, die, calls, nextElem, popped, destroyed,
                   leftover, ev, env, task, main>>

\* handle_job: the end of a locked region
handle_job_unlock ==
    /\ \E c \in DOMAIN cpus :
          /\ c.pc \in {"counted", "timed"}
          /\ cpus' = Step(c, [Unlocked(c) EXCEPT
                                 !.pc = IF c.pc = "counted"
                                        THEN "service" ELSE "completion"])
    /\ UNCHANGED <<used, data, producer_n_elems, n_consumers_waiting,
                   producers_done, die, calls, nextElem, popped, destroyed,
                   leftover, ev, env, task, stats, main>>

\* handle_job: log_service followed by run_job, or log_completion followed
\* by the test of the loop of cpu
handle_job_log ==
    /\ \E c \in DOMAIN cpus :
          /\ c.pc \in {"service", "completion"}
          /\ \E r \in Results(EIO) :
                cpus' = Step(c, [c EXCEPT
                            !.retval = r,
                            !.pc = IF r # OK THEN "exit"
                                   ELSE IF c.pc = "service" THEN "turnaround"
                                   ELSE "pop"])
    /\ UNCHANGED <<used, data, producer_n_elems, n_consumers_waiting,
                   producers_done, die, calls, nextElem, popped, destroyed,
                   leftover, ev, env, task, stats, main>>

\* ---- main ----
\* pthread_create(&task_thread, ...)
main_create_task ==
    /\ main.pc = "create_task"
    /\ \E r \in Results("EAGAIN") :
          /\ main' = [main EXCEPT !.pc = IF r = OK THEN "create_cpus"
                                         ELSE "teardown"]
          /\ task' = IF r = OK THEN [task EXCEPT !.pc = "fill"] ELSE task
    /\ UNCHANGED <<used, data, producer_n_elems, n_consumers_waiting,
                   producers_done, die, calls, nextElem, popped, destroyed,
                   leftover, ev, env, cpus, stats>>

\* one pass of the loop over pthread_create(&cpu_threads[i], ...); when it
\* fails, i is taken back to the number of threads that exist
main_create_cpu ==
    /\ main.pc = "create_cpus"
    /\ \E r \in Results("EAGAIN") :
          IF r = OK
          THEN /\ cpus' = cpus (+) One(Cpu("pop", FALSE, OK))
               /\ main' = [main EXCEPT !.i = main.i + 1,
                                       !.pc = IF main.i + 1 < CPU_COUNT
                                              THEN "create_cpus" ELSE "join"]
          ELSE /\ cpus' = cpus
               /\ main' = [main EXCEPT !.pc = "close"]
    /\ UNCHANGED <<used, data, producer_n_elems, n_consumers_waiting,
                   producers_done, die, calls, nextElem, popped, destroyed,
                   leftover, ev, env, task, stats>>

\* tsqueue_close(queue) after a failed pthread_create
main_close ==
    /\ main.pc \in {"close", "in_close"}
    /\ main.pc = "in_close" => BagIn(Call("close", 0, "woken"), calls)
    /\ close_section("close", main.pc = "in_close")
    /\ main' = [main EXCEPT !.pc = IF ev'.ret = BLOCKED THEN "in_close"
                                   ELSE "join"]
    /\ UNCHANGED <<env, task, cpus, stats>>

\* pthread_join of task_thread and of the i consumer threads
main_join ==
    /\ main.pc = "join"
    /\ task.pc = "exit"
    /\ \A c \in DOMAIN cpus : c.pc = "exit"
    /\ main' = [main EXCEPT !.pc = "teardown"]
    /\ UNCHANGED <<used, data, producer_n_elems, n_consumers_waiting,
                   producers_done, die, calls, nextElem, popped, destroyed,
                   leftover, ev, env, task, cpus, stats>>

\* the teardown of main: tsqueue_destroy(queue, NULL)
main_teardown ==
    /\ main.pc = "teardown"
    /\ \/ tsqueue_destroy
       \/ close_resume("destroy")
       \/ destroy_release

PipeNext ==
    \/ main_create_task
    \/ main_create_cpu
    \/ main_close
    \/ main_join
    \/ main_teardown
    \/ task_fill_job_buffer
    \/ task_wait_for_space
    \/ task_put
    \/ task_log_arrival
    \/ task_set_done
    \/ cpu_pop
    \/ handle_job_lock
    \/ handle_job_unlock
    \/ handle_job_log
    \/ spurious_wakeup

\* every thread that can run eventually runs
PipeFairness ==
    /\ WF_vars(main_create_task \/ main_create_cpu \/ main_close
               \/ main_join \/ main_teardown)
    /\ WF_vars(task_fill_job_buffer \/ task_wait_for_space \/ task_put
               \/ task_log_arrival \/ task_set_done)
    /\ WF_vars(cpu_pop)
    /\ WF_vars(handle_job_lock)
    /\ WF_vars(handle_job_unlock)
    /\ WF_vars(handle_job_log)

PipeSpec == PipeInit /\ [][PipeNext]_vars /\ PipeFairness

\* ---- the program when no call of the environment fails ----
\* every pthread_create succeeds, so main does not close the queue
CleanNext ==
    \/ main_create_task
    \/ main_create_cpu
    \/ main_join
    \/ main_teardown
    \/ task_fill_job_buffer
    \/ task_wait_for_space
    \/ task_put
    \/ task_log_arrival
    \/ task_set_done
    \/ cpu_pop
    \/ handle_job_lock
    \/ handle_job_unlock
    \/ handle_job_log
    \/ spurious_wakeup

CleanInit == PipeInit /\ ~main.faults

CleanSpec == CleanInit /\ [][CleanNext]_vars /\ PipeFairness

\* ---- the producer of the program against arbitrary consumers ----
\* task has been started by main; the other callers are the NThreads
\* threads of the queue, which pop any number of elements, set and clear
\* producers_done and close the queue, but do not put
ReserveInit ==
    /\ Created
    /\ used = 0
    /\ data = [i \in 1..Capacity |-> 0]
    /\ nextElem = 1
    /\ producer_n_elems = 0
    /\ n_consumers_waiting = 0
    /\ producers_done = FALSE
    /\ die = FALSE
    /\ calls = EmptyBag
    /\ popped = <<>>
    /\ destroyed = FALSE
    /\ leftover = 0
    /\ ev = Ev("create", 0, OK, 0, FALSE)
    /\ \E jobs \in 1..MaxElems :
          task = [pc |-> "fill", left |-> jobs, n |-> 0, retval |-> OK,
                  dones |-> 0]
    /\ cpus = EmptyBag
    /\ stats = [num_tasks |-> 0]
    /\ \E f \in BOOLEAN : main = [pc |-> "create_cpus", i |-> 0, faults |-> f]

ReserveNext ==
    \/ task_fill_job_buffer
    \/ task_wait_for_space
    \/ task_put
    \/ task_log_arrival
    \/ task_set_done
    \/ \E n \in LiveCounts : tsqueue_pop(n)
    \/ \E n \in LiveCounts : consumer_resume(n)
    \/ \E done \in BOOLEAN : tsqueue_set_done(done)
    \/ tsqueue_close
    \/ close_resume("close")
    \/ spurious_wakeup

ReserveSpec == ReserveInit /\ [][ReserveNext]_vars

TypeOK ==
    /\ used \in Int
    /\ n_consumers_waiting \in 0..NThreads
    /\ producer_n_elems \in 0..Capacity
    /\ IsABag(calls)
    /\ Idle >= 0

\* ---- vocabulary of the properties ----
IsPrefix(s, r) ==
    /\ Len(s) <= Len(r)
    /\ \A i \in 1..Len(s) : s[i] = r[i]

ProducerOps == {"put", "wfs"}
InQueue == {"put", "wfs", "pop"}

\* e is the first critical section of a call (not a resumption)
Entry(e, ops) == e.op \in ops /\ ~e.waited

\* C1: FIFO order.  The elements handed out by tsqueue_pop, in the order the
\* pops take effect, are a prefix of the preloaded elements followed by the
\* elements put, in put order.
C1_FifoOrder == IsPrefix(popped, inserted)

C1_Witness ==
    /\ Len(popped) >= 3
    /\ ev.op = "pop" /\ ev.ret = OK /\ ev.cnt >= 2

\* C2: capacity invariant.  0 <= used <= capacity in every reachable state.
C2_CapacityInvariant == 0 <= used /\ used <= capacity

C2_Witness ==
    /\ ev.op = "put" /\ ev.waited /\ ev.ret = OK /\ ev.n >= 1
    /\ used = capacity

\* C3: drain wait.  When tsqueue_close has returned (also inside
\* tsqueue_destroy, before and after the release of the queue), no thread is
\* inside tsqueue_put, tsqueue_wait_for_space or tsqueue_pop, and both wait
\* counters are zero.
C3_DrainBeforeReturn ==
    (ev.op \in AllDeadCond /\ ev.ret = OK) =>
        /\ producer_n_elems = 0
        /\ n_consumers_waiting = 0
        /\ Inside(InQueue) = 0

\* C4: forced shutdown wakes everyone.  When die is set while threads are
\* inside the wait loops of put, wait_for_space or pop, eventually all of
\* them have returned (no call starts to wait once die is set), and a call
\* that leaves its wait loop while die is set returns TSQUEUE_CLOSED, pop
\* with no elements.
C4_ShutdownWakesAll ==
    /\ (die /\ Inside(InQueue) > 0) ~> (Inside(InQueue) = 0)
    /\ [][(die /\ Inside(InQueue)' < Inside(InQueue)) =>
            (ev'.ret = TSQUEUE_CLOSED /\ ev'.cnt = 0)]_vars

C4_Witness ==
    /\ die
    /\ ev.op = "pop" /\ ev.waited /\ ev.ret = TSQUEUE_CLOSED
    /\ n_consumers_waiting >= 1

\* C5: no late entrant blocks.  A put, wait_for_space or pop that takes the
\* lock while die is set returns TSQUEUE_CLOSED in that critical section
\* (it never waits), pop with zero elements, and changes nothing of the
\* contents.
C5_NoLateEntrantBlocks ==
    [][(die /\ Entry(ev', InQueue)) =>
          /\ ev'.ret = TSQUEUE_CLOSED
          /\ ev'.cnt = 0
          /\ Inside(InQueue)' = Inside(InQueue)
          /\ UNCHANGED <<used, data, popped>>]_vars

C5_Witness ==
    /\ die /\ ~producers_done
    /\ ev.op = "pop" /\ ~ev.waited /\ ev.ret = TSQUEUE_CLOSED
    /\ used < ev.n /\ ev.n <= capacity

\* C6: single-producer exclusion.  While a thread is inside the wait loop of
\* put or wait_for_space and die is not set, a put or wait_for_space by
\* another thread returns TSQUEUE_SINGLE_PRODUCER in its first critical
\* section, inserts nothing and leaves the waiting call as it was.
C6_SingleProducer ==
    [][(/\ Inside(ProducerOps) > 0
        /\ ~die
        /\ Entry(ev', ProducerOps)) =>
           /\ ev'.ret = TSQUEUE_SINGLE_PRODUCER
           /\ UNCHANGED <<calls, used, data, nextElem, producer_n_elems>>]_vars

C6_Witness ==
    /\ ~die
    /\ ev.op = "put" /\ ev.ret = TSQUEUE_SINGLE_PRODUCER /\ ev.n <= capacity
    /\ \E n \in Counts : BagIn(Call("put", n, "blocked"), calls)

\* C7 as stated: put and wait_for_space with n > capacity return
\* TSQUEUE_TOO_MANY in every queue state.
C7_AlwaysTooMany ==
    (ev.op \in ProducerOps /\ ev.n > capacity) => ev.ret = TSQUEUE_TOO_MANY

\* C7 amended: put and wait_for_space with n > capacity never wait and never
\* insert; they return TSQUEUE_CLOSED when die is set, else
\* TSQUEUE_SINGLE_PRODUCER when another producer call is pending, else
\* TSQUEUE_TOO_MANY.
C7_TooManyUnlessPendingOrClosed ==
    [][(Entry(ev', ProducerOps) /\ ev'.n > capacity) =>
          /\ ev'.ret = IF die THEN TSQUEUE_CLOSED
                       ELSE IF producer_n_elems # 0
                            THEN TSQUEUE_SINGLE_PRODUCER
                            ELSE TSQUEUE_TOO_MANY
          /\ Inside(InQueue)' = Inside(InQueue)
          /\ UNCHANGED <<used, data, nextElem, producer_n_elems>>]_vars

C7_Witness ==
    /\ ~die /\ producer_n_elems = 0 /\ used = 0
    /\ ev.op = "put" /\ ev.n > capacity /\ ev.ret = TSQUEUE_TOO_MANY

\* C8 as stated: pop with max_n > capacity returns TSQUEUE_TOO_MANY.
C8_PopAlwaysTooMany ==
    (ev.op = "pop" /\ ev.n > capacity) => ev.ret = TSQUEUE_TOO_MANY

\* C8 amended: pop with max_n > capacity never waits, removes nothing and
\* leaves used and the contents unchanged; it returns TSQUEUE_TOO_MANY unless
\* die is set, and TSQUEUE_CLOSED when die is set.
C8_PopTooManyUnlessClosed ==
    [][(Entry(ev', {"pop"}) /\ ev'.n > capacity) =>
          /\ ev'.ret = IF die THEN TSQUEUE_CLOSED ELSE TSQUEUE_TOO_MANY
          /\ ev'.cnt = 0
          /\ Inside(InQueue)' = Inside(InQueue)
          /\ UNCHANGED <<used, data, popped, n_consumers_waiting>>]_vars

C8_Witness ==
    /\ ~die /\ used >= 1
    /\ ev.op = "pop" /\ ev.n > capacity /\ ev.ret = TSQUEUE_TOO_MANY

\* C9: partial drain on soft completion.  With producers_done set and die not
\* set, pop(max_n) with max_n <= capacity returns success in its first
\* critical section with actual_n = min(max_n, used), hands out the first
\* actual_n elements and decreases used by actual_n.
C9_PartialDrain ==
    [][(/\ producers_done /\ ~die
        /\ Entry(ev', {"pop"}) /\ ev'.n <= capacity) =>
          /\ ev'.ret = OK
          /\ ev'.cnt = Min(ev'.n, used)
          /\ used' = used - ev'.cnt
          /\ popped' = popped \o SubSeq(data, 1, ev'.cnt)
          /\ Inside({"pop"})' = Inside({"pop"})]_vars

C9_Witness ==
    /\ producers_done /\ ~die
    /\ ev.op = "pop" /\ ~ev.waited /\ ev.ret = OK
    /\ ev.cnt >= 1 /\ ev.cnt < ev.n

\* C10: set_done(true) wakes every waiting consumer.  When producers_done
\* is set while consumers are inside the wait loop of pop, eventually all of
\* them have left it (no pop starts to wait while producers_done is set),
\* unless producers_done is cleared again; a consumer that leaves the loop
\* with die not set returns success with actual_n = min(max_n, used).
C10_SetDoneWakesAll ==
    /\ (producers_done /\ Inside({"pop"}) > 0) ~>
           (Inside({"pop"}) = 0 \/ ~producers_done)
    /\ [][(producers_done /\ ~die /\ Inside({"pop"})' < Inside({"pop"})) =>
            /\ ev'.op = "pop" /\ ev'.waited
            /\ ev'.ret = OK
            /\ ev'.cnt = Min(ev'.n, used)]_vars

C10_Witness ==
    /\ producers_done /\ ~die
    /\ ev.op = "pop" /\ ev.waited /\ ev.ret = OK /\ ev.cnt < ev.n
    /\ n_consumers_waiting >= 1

\* the fields of the queue and the threads inside it
queue_state == <<used, data, producer_n_elems, n_consumers_waiting,
                 producers_done, die, calls, nextElem, popped, destroyed,
                 leftover>>

\* C11: soft completion is idempotent and reversible.  A set_done(true)
\* directly after a set_done(true) changes nothing of the queue; a
\* set_done(false) clears producers_done; and while producers_done and die
\* are clear, a pop(max_n) with used < max_n <= capacity waits (at entry and
\* when woken) and takes nothing, and it leaves its wait loop only when
\* used >= max_n, producers_done or die holds.
C11_SetDoneIdempotentReversible ==
    /\ [][(/\ ev.op = "set_done" /\ ev.n = 1
            /\ ev'.op = "set_done" /\ ev'.n = 1) =>
              UNCHANGED queue_state]_vars
    /\ [][(ev'.op = "set_done" /\ ev'.n = 0) => ~producers_done']_vars
    /\ [][(ev'.op = "pop" /\ ev'.n <= capacity) =>
              /\ (ev'.ret = BLOCKED) =
                     (~producers_done /\ ~die /\ used < ev'.n)
              /\ (ev'.ret = BLOCKED) => UNCHANGED <<used, data, popped>>]_vars

\* under DoneSpec producers_done starts set, so it was cleared by a
\* set_done(false) that followed a set_done(true)
C11_Witness ==
    /\ ~producers_done /\ ~die
    /\ ev.op = "pop" /\ ~ev.waited /\ ev.ret = BLOCKED
    /\ used >= 1 /\ used < ev.n

\* C12: destroy leaves the remainder in place.  Once tsqueue_destroy has
\* released the queue, the count it reported is the number of elements
\* inserted (preloaded or put) and not popped, and the first slots of the
\* backing array hold exactly those elements, oldest first.
C12_DestroyLeavesRemainder ==
    destroyed =>
        /\ leftover = (nextElem - 1) - Len(popped)
        /\ \A i \in 1..leftover : data[i] = inserted[Len(popped) + i]

\* more elements were inserted than could be preloaded, so one was put; one
\* was popped, so the remainder was moved
C12_Witness ==
    /\ destroyed
    /\ nextElem - 1 > capacity
    /\ Len(popped) >= 1
    /\ leftover >= 1

\* C13 as stated: when tsqueue_create has returned an error, the caller's
\* handle is NULL.
C13_HandleNullOnFailure ==
    (ev.op = "create" /\ ev.ret \notin {OK, SIGSEGV}) => queue = "NULL"

\* C14: no primitive leaks on partial failure.  When one of the four
\* initialisation steps fails, tsqueue_create returns the error number of
\* that step, every primitive initialised before it was destroyed exactly
\* once, the failing step and the steps after it were neither initialised
\* nor destroyed, and the struct was freed.
C14_CreateNoLeak ==
    (ev.op = "create" /\ fault.at \in Primitives) =>
        /\ ev.ret = fault.err
        /\ \A p \in Primitives :
              prim[p] = IF StepOf(p) < StepOf(fault.at)
                        THEN [inits |-> 1, destroys |-> 1]
                        ELSE [inits |-> 0, destroys |-> 0]
        /\ heap = "freed"

C14_Witness ==
    /\ ev.op = "create" /\ fault.at = "consumer_wakeup"
    /\ ev.ret = "EAGAIN"
    /\ prim["lock"].destroys = 1 /\ prim["producer_wakeup"].destroys = 1

\* no thread inside the queue was signalled and has yet to run
Quiescent == \A c \in DOMAIN calls : c.st # "woken"

\* C15 as stated: no consumer sleeps past its wake condition.  In no
\* quiescent state of the live queue is a consumer blocked in pop(max_n)
\* while used >= max_n.
C15_NoConsumerOversleeps ==
    (heap = "allocated" /\ ~destroyed /\ Quiescent) =>
        \A c \in DOMAIN BlockedOn({"pop"}) : used < c.n

\* C16: cascading wakeups drain one batch.  Consumers are inside pop(1) and
\* a tsqueue_put has inserted a batch, m - 1 elements having been inserted in
\* all.  Unless a further put inserts more, eventually the number of
\* elements handed out is the smaller of the number inserted and the number
\* of consumers that asked (those that returned one and those still
\* inside); every consumer that leaves the wait loop returns success with
\* exactly one element.
C16_CascadingWakeups ==
    /\ \A m \in 2..(MaxElems + 1) :
          (nextElem = m) ~>
             \/ nextElem # m
             \/ Len(popped) = Min(m - 1, Len(popped) + Inside({"pop"}))
    /\ [][(Inside({"pop"})' < Inside({"pop"})) =>
             /\ ev'.op = "pop" /\ ev'.waited /\ ev'.ret = OK /\ ev'.cnt = 1
             /\ Inside({"pop"})' = Inside({"pop"}) - 1]_vars

\* a consumer that waited has returned one element of a batch, an element is
\* left and the next consumer was signalled
C16_Witness ==
    /\ ev.op = "pop" /\ ev.waited /\ ev.ret = OK /\ ev.cnt = 1
    /\ used >= 1
    /\ BagIn(Call("pop", 1, "woken"), calls)

\* C17: no lost producer wakeup.  The pop that first makes room for the
\* producer waiting in put(n) or wait_for_space(n) signals it; a producer
\* that is inside while the room is there eventually returns, and it
\* returns success (put having inserted its n elements); and in no
\* quiescent state with die clear is a producer blocked while
\* capacity - used >= n.
C17_NoLostProducerWakeup ==
    /\ (Inside(ProducerOps) > 0 /\ capacity - used >= producer_n_elems) ~>
          (Inside(ProducerOps) = 0)
    /\ [][(\E c \in DOMAIN BlockedOn(ProducerCond) :
              capacity - used < c.n /\ capacity - used' >= c.n) =>
             /\ ev'.op = "pop"
             /\ BlockedOn(ProducerCond)' = EmptyBag]_vars
    /\ [][(~die /\ Inside(ProducerOps)' < Inside(ProducerOps)) =>
             /\ ev'.op \in ProducerOps /\ ev'.waited /\ ev'.ret = OK
             /\ capacity - used >= ev'.n
             /\ used' = IF ev'.op = "put" THEN used + ev'.n ELSE used]_vars
    /\ []((Quiescent /\ ~die) =>
             \A c \in DOMAIN BlockedOn(ProducerCond) : capacity - used < c.n)

\* a pop has just made the room the waiting put asked for and signalled it
C17_Witness ==
    /\ ~die
    /\ ev.op = "pop" /\ ev.ret = OK /\ ev.cnt >= 1
    /\ \E n \in LiveCounts :
          /\ BagIn(Call("put", n, "woken"), calls)
          /\ producer_n_elems = n
          /\ capacity - used >= n
          /\ capacity - (used + ev.cnt) < n

\* C18: batch operations are atomic.  A tsqueue_put that returns success
\* appends its n elements, in order, directly behind the elements that were
\* in the queue, in one critical section; a put that waits or fails inserts
\* nothing.  A tsqueue_pop that returns success takes its actual_n elements
\* from the head, in order, in one critical section and moves the rest up;
\* a pop that waits or fails takes nothing.  No other step touches the
\* contents, so the queue always holds exactly the batches inserted and not
\* yet popped, unbroken and in insertion order.
C18_BatchAtomicity ==
    /\ [][(ev'.op = "put" /\ ev'.ret = OK) =>
             /\ used' = used + ev'.n
             /\ nextElem' = nextElem + ev'.n
             /\ \A i \in 1..used : data'[i] = data[i]
             /\ \A j \in 1..ev'.n : data'[used + j] = nextElem + j - 1
             /\ popped' = popped]_vars
    /\ [][(ev'.op = "pop" /\ ev'.ret = OK) =>
             /\ used' = used - ev'.cnt
             /\ popped' = popped \o SubSeq(data, 1, ev'.cnt)
             /\ \A i \in 1..used' : data'[i] = data[i + ev'.cnt]
             /\ nextElem' = nextElem]_vars
    /\ [][~(ev'.op \in {"put", "pop"} /\ ev'.ret = OK) =>
             UNCHANGED <<used, data, popped, nextElem>>]_vars
    /\ [](/\ used = (nextElem - 1) - Len(popped)
          /\ \A i \in 1..used : data[i] = Len(popped) + i)

\* a put that had to wait has inserted a batch of two or more while a
\* consumer was inside the queue, after elements had been popped
C18_Witness ==
    /\ ev.op = "put" /\ ev.waited /\ ev.ret = OK /\ ev.n >= 2
    /\ Len(popped) >= 1
    /\ Inside({"pop"}) >= 1

\* C19: wait_for_space inserts nothing.  No critical section of
\* tsqueue_wait_for_space, whether it waits or returns success,
\* TSQUEUE_TOO_MANY, TSQUEUE_SINGLE_PRODUCER or TSQUEUE_CLOSED, changes
\* used, the contents, producers_done or die; and when it returns success
\* capacity - used >= n holds.
C19_WaitForSpaceInsertsNothing ==
    [][(ev'.op = "wfs") =>
          /\ UNCHANGED <<used, data, nextElem, popped, producers_done, die>>
          /\ (ev'.ret = OK) => (capacity - used' >= ev'.n)]_vars

\* wait_for_space had to wait and has returned success on a queue that
\* holds elements
C19_Witness ==
    /\ ev.op = "wfs" /\ ev.waited /\ ev.ret = OK /\ ev.n >= 1
    /\ used >= 1

\* C20: close is idempotent.  tsqueue_close called on a queue that is closed
\* and drained (die set, both wait counters zero) returns in its first
\* critical section and changes no field of the queue and no thread inside.
C20_CloseIdempotent ==
    [][(/\ die /\ producer_n_elems = 0 /\ n_consumers_waiting = 0
        /\ Entry(ev', {"close"})) =>
          /\ ev'.ret = OK
          /\ UNCHANGED queue_state]_vars

\* a first tsqueue_close had to wait and has been woken; it is still inside
\* when a second tsqueue_close has returned from the drained queue
C20_Witness ==
    /\ die /\ producer_n_elems = 0 /\ n_consumers_waiting = 0
    /\ ev.op = "close" /\ ~ev.waited /\ ev.ret = OK
    /\ BagIn(Call("close", 0, "woken"), calls)

\* C25: the wait counters are exact.  While the queue exists and its lock is
\* free, at most one call is inside the space-wait loop of put or
\* wait_for_space, producer_n_elems is non-zero exactly when there is one and
\* then equals its n_elems, and n_consumers_waiting is the number of
\* tsqueue_pop calls inside their wait loop, blocked or signalled and not yet
\* resumed.
C25_WaitCountersExact ==
    ~destroyed =>
        /\ Inside(ProducerOps) <= 1
        /\ (producer_n_elems # 0) <=> (Inside(ProducerOps) = 1)
        /\ \A c \in DOMAIN calls :
              c.op \in ProducerOps => c.n = producer_n_elems
        /\ n_consumers_waiting = Inside({"pop"})

C25_Witness ==
    /\ ~destroyed
    /\ producer_n_elems = 2
    /\ n_consumers_waiting = 2
    /\ BagIn(Call("pop", 2, "woken"), calls)
    /\ BagIn(Call("pop", 2, "blocked"), calls)

\* C26: closing is terminal.  Once tsqueue_close has set die, no step of
\* put, wait_for_space, pop, set_done or close, and no resumption of a
\* waiting call, clears it again.
C26_ClosingIsTerminal == [][die => die']_vars

C26_Witness ==
    /\ die /\ ~destroyed
    /\ ev.op = "set_done" /\ ev.n = 0
    /\ Len(popped) >= 1

\* C29: the contents are frozen by shutdown.  From the state in which die is
\* set onward no step changes used or the valid region data[1..used], also
\* not the resumption of a producer that was blocked in put when close was
\* called or of a consumer that a put had already signalled; and what
\* tsqueue_destroy reports as used is that number of elements.
C29_ContentsFrozenByShutdown ==
    /\ [][die => /\ used' = used
                 /\ \A i \in 1..used : data'[i] = data[i]]_vars
    /\ [](destroyed => leftover = used)

C29_Witness ==
    /\ die
    /\ ev.op = "pop" /\ ev.waited /\ ev.ret = TSQUEUE_CLOSED
    /\ used >= ev.n
    /\ Inside({"put"}) = 1

\* C30: a short pop implies soft completion.  Whenever tsqueue_pop returns
\* success with fewer elements than requested, producers_done was set when
\* the pop took effect, it handed out everything the queue held and the
\* queue is empty afterwards; tsqueue_pop for one element returns none only
\* from an empty queue with producers_done set.
C30_ShortPopImpliesDone ==
    [][(ev'.op = "pop" /\ ev'.ret = OK /\ ev'.cnt < ev'.n) =>
          /\ producers_done
          /\ ev'.cnt = used
          /\ used' = 0]_vars

C30_Witness ==
    /\ ev.op = "pop" /\ ev.ret = OK /\ ev.waited
    /\ ev.n = 2 /\ ev.cnt = 1
    /\ producers_done /\ used = 0

\* C27: tsqueue_close terminates.  No closer is left asleep on all_dead once
\* the queue has drained: in no state is a tsqueue_close blocked while both
\* wait counters are zero and no signalled thread has yet to run.
C27_CloseTerminates ==
    ~ /\ ~destroyed
      /\ BagCardinality(BlockedOn({"close"})) > 0
      /\ producer_n_elems = 0 /\ n_consumers_waiting = 0
      /\ Quiescent

\* C21: the first error forces the shutdown of the pipeline.  When a
\* consumer thread has ended with an error, the queue gets closed, so the
\* program is never left with every consumer gone, the producer inside its
\* wait for space that the open queue does not have, and main waiting in
\* pthread_join.
C21_ErrorForcesShutdown ==
    ~ /\ \E c \in DOMAIN cpus : c.pc = "exit" /\ c.retval # OK
      /\ \A c \in DOMAIN cpus : c.pc = "exit"
      /\ task.pc \in {"in_wfs", "in_put"}
      /\ ProducerMustWait(task.n)
      /\ main.pc = "join"

\* C22: the producer marks completion exactly once.  On every way out of
\* its loop (end of the job file, a read or log error, the queue closed)
\* task has called tsqueue_set_done(queue, true) once when it returns, never
\* more than once, and after that call it makes no tsqueue_put or
\* tsqueue_wait_for_space call.
C22_ProducerMarksDoneOnce ==
    /\ task.dones <= 1
    /\ task.pc = "exit" => (task.dones = 1 /\ producers_done)
    /\ task.dones = 1 =>
          /\ task.pc = "exit"
          /\ ev.op \notin ProducerOps
          /\ Inside(ProducerOps) = 0

C22_Witness ==
    /\ task.pc = "exit" /\ task.dones = 1
    /\ die /\ task.retval = OK /\ task.left > 0
    /\ ev.op = "set_done"

\* main is past its joins after a run without errors: all jobs went in and
\* came out, producers_done is set and every consumer ended on an empty pop
AllJoined ==
    /\ main.pc = "teardown"
    /\ task.pc = "exit" /\ task.left = 0 /\ task.retval = OK
    /\ producers_done /\ ~die
    /\ BagCardinality(cpus) = CPU_COUNT
    /\ \A c \in DOMAIN cpus : c.pc = "exit" /\ c.retval = OK
    /\ Len(popped) = nextElem - 1

\* the producer sleeps in its wait for space and every consumer in its wait
\* for elements
AllBlocked ==
    /\ BagCardinality(BlockedOn(ProducerOps)) = 1
    /\ BagCardinality(BlockedOn({"pop"})) = CPU_COUNT

\* C23: the pipeline terminates.  In a run in which no call of the
\* environment fails, under fair scheduling, task puts every job of the file
\* and sets producers_done, every cpu thread leaves its loop on a
\* tsqueue_pop that returned no element and no error, and main gets past its
\* joins; and in no state of such a run is the producer blocked for space
\* while every consumer is blocked for elements.
C23_PipelineTerminates ==
    /\ (main.pc = "create_task" /\ ~main.faults) ~> AllJoined
    /\ [](~main.faults => ~AllBlocked)

C23_Witness ==
    /\ ~main.faults
    /\ AllJoined
    /\ Len(popped) = MaxJobs
    /\ stats.num_tasks = MaxJobs

\* where a cpu thread is about to call or is inside tsqueue_pop
QueuePcs == {"pop", "in_pop"}

\* the cpu threads that hold stats->lock
Holders == [c \in {x \in DOMAIN cpus : x.holds} |-> cpus[c]]

\* C24: lock separation.  No thread holds stats->lock while it takes or
\* waits for the lock of the queue: a cpu thread acquires stats->lock only
\* after tsqueue_pop has returned and has released it before its next queue
\* call and before it returns, the holder being inside one of the two locked
\* regions of handle_job; and at most one thread holds it.
C24_LockSeparation ==
    /\ \A c \in DOMAIN cpus :
          c.holds => (c.pc \notin QueuePcs /\ c.pc \in {"counted", "timed"})
    /\ BagCardinality(Holders) <= 1

C24_Witness ==
    /\ \E c \in DOMAIN cpus : c.holds /\ c.pc = "timed"
    /\ \E c \in DOMAIN cpus : c.pc = "in_pop"
    /\ \E c \in DOMAIN cpus : c.pc = "turnaround"
    /\ task.pc = "in_wfs"

\* main is past its joins, every thread was created and none ended with an
\* error
CleanRun ==
    /\ main.pc = "teardown"
    /\ task.pc = "exit" /\ task.retval = OK
    /\ BagCardinality(cpus) = CPU_COUNT
    /\ \A c \in DOMAIN cpus : c.retval = OK

\* C28: no job is lost or duplicated.  Every job handed out by tsqueue_pop
\* is a job that was put, no job is handed out twice, and num_tasks counts
\* only jobs that were handed out; and after a run without an error and
\* without a forced shutdown every job of the file was put and handed out
\* exactly once, num_tasks is the number of jobs enqueued, and the queue is
\* empty when main destroys it.
C28_NoJobLostOrDuplicated ==
    /\ \A i \in 1..Len(popped) : popped[i] \in 1..(nextElem - 1)
    /\ \A i, j \in 1..Len(popped) : i # j => popped[i] # popped[j]
    /\ stats.num_tasks <= Len(popped)
    /\ CleanRun =>
          /\ task.left = 0
          /\ Len(popped) = nextElem - 1
          /\ stats.num_tasks = nextElem - 1
          /\ used = 0

C28_Witness ==
    /\ CleanRun /\ destroyed /\ main.faults
    /\ stats.num_tasks = MaxJobs
    /\ used = 0 /\ leftover = 0

\* the return values that turn a call away
Rejections == {TSQUEUE_TOO_MANY, TSQUEUE_SINGLE_PRODUCER}

\* C32: rejections are free of side effects.  A tsqueue_put,
\* tsqueue_wait_for_space or tsqueue_pop call that returns TSQUEUE_TOO_MANY
\* or TSQUEUE_SINGLE_PRODUCER returns from its first critical section and
\* leaves used, the contents, producers_done, die, n_consumers_waiting and
\* producer_n_elems as they were, wakes nobody, and hands out nothing; the
\* producer_n_elems of a blocked producer survives a rejected second one.
C32_RejectionsSideEffectFree ==
    [][(ev'.op \in InQueue /\ ev'.ret \in Rejections) =>
          /\ ~ev'.waited
          /\ ev'.cnt = 0
          /\ UNCHANGED <<used, data, producers_done, die, n_consumers_waiting,
                         producer_n_elems, calls, nextElem, popped>>]_vars

C32_Witness ==
    /\ ev.op = "put" /\ ev.ret = TSQUEUE_SINGLE_PRODUCER
    /\ producer_n_elems = 2
    /\ BagIn(Call("wfs", 2, "blocked"), calls)
    /\ n_consumers_waiting = 1

\* C31: reserved space cannot shrink.  After tsqueue_wait_for_space for n
\* slots has returned success to the only producer, the tsqueue_put of n
\* elements that it issues next never enters pthread_cond_wait, whatever
\* pops, set_done calls and closes took place in between: it inserts its n
\* elements in its first critical section or returns TSQUEUE_CLOSED.
C31_ReservedSpaceCannotShrink ==
    /\ [](task.pc # "in_put")
    /\ [](task.pc = "put" => (die \/ capacity - used >= task.n))
    /\ [][(task.pc = "put" /\ task'.pc # "put") =>
             /\ ev'.op = "put" /\ ~ev'.waited
             /\ \/ ev'.ret = OK /\ used' = used + task.n
                \/ ev'.ret = TSQUEUE_CLOSED /\ die /\ used' = used]_vars

C31_Witness ==
    /\ task.pc = "log"
    /\ ev.op = "put" /\ ev.ret = OK
    /\ used = capacity
    /\ producers_done
    /\ Len(popped) >= 1

====
